---------------------------- MODULE Spec2Model ----------------------------
(***************************************************************************)
(* Sequence-challenge scheduler of the voice trainer (src/app.js).         *)
(*                                                                         *)
(* Units.  Time is counted in units of 1/60 s (one display frame at 60 Hz),*)
(* so sequenceSampleInterval = 1000/30 ms is 2 units, the 1500 ms lead-in  *)
(* is 90 units and a 1050 ms note is 63 units.                             *)
(* Clock.  The program only ever subtracts timestamps, so the origin of    *)
(* the clock is moved to the timestamp of each animation frame: a stored   *)
(* timestamp t stands for "t units after the frame under way".  Timestamps *)
(* further back than every duration they are compared with are kept at     *)
(* that distance (Horizon, and SequenceSampleInterval for the sample       *)
(* clock).                                                                 *)
(* Frequencies are represented on the cents scale, 100 * midi: the value c *)
(* stands for 440 * 2^((c - 6900)/1200) Hz.  On that scale getFrequency is *)
(* 100 * midiNote and getCentsDifference is a subtraction, both exact.     *)
(* Tempo-adjusted durations are rationals and are kept as num/den records; *)
(* Math.round is computed on exact rationals.                              *)
(***************************************************************************)
EXTENDS Integers, Sequences, FiniteSets, TLC

\* ----------------------------------------------------------------- bounds
\* frames arrive 1 unit apart while every countdown under way lasts at most
\* MaxTime from its first beat, and in stalls of LeadInMs units at any time
MaxTime == 12
\* sampling ticks in one note
MaxSamplesPerNote == 2
\* clicks on Go and Retry, changes of the selectors and the slider, imports
MaxInputs == 3
\* sampling ticks in one note of the run sung on pitch at a steady frame rate
MaxSteadySamples == 32
\* semitones a note is transposed by, up or down
MaxShift == 14
\* sampling ticks in one session of free practice
MaxFreeSamples == 92
\* changes of the estimate within one session of free practice
MaxSignalChanges == 1
\* samples behind a mean deviation
MaxMeanSamples == 2
\* notes of a finished run whose scores are drawn freely
MaxScoredNotes == 2
\* samples in the buffer handed to detectPitch
FrameSize == 10
\* octaves of the notes handed to the pitch functions: 0..MaxOctave
MaxOctave == 4
\* how far back a timestamp is told apart; longer than every duration
Horizon == 512

\* ------------------------------------------------------ program constants
SequenceSampleInterval == 2
SampleInterval == 2
maxSamples == 90
\* currentNote.frequency of free practice: A4
FreeTarget == 6900
LeadInMs == 90
SmoothingWindow == 5
NoPitch == -1
BandLow == 3948
BandHigh == 8322
CountdownBeats == 4

noteNames == <<"C", "C#", "D", "D#", "E", "F", "F#", "G", "G#", "A", "A#", "B">>

\* sequences[...] : the built-in template and the notes a MusicXML import
\* can produce (durations in time units at 100% tempo)
SimpleScaleNotes ==
    << [note |-> "C", octave |-> 3, duration |-> 63, noteType |-> "quarter"],
       [note |-> "D", octave |-> 3, duration |-> 63, noteType |-> "quarter"],
       [note |-> "E", octave |-> 3, duration |-> 63, noteType |-> "quarter"] >>

ImportedNoteLists ==
    { << [note |-> "C", octave |-> 3, duration |-> 3, noteType |-> "eighth"],
         [note |-> "D", octave |-> 3, duration |-> 2, noteType |-> "eighth"] >> }

SequenceIds == {"simple-scale", "custom"}
TempoChoices == {100, 200}
\* values the start-note and start-octave selects are moved between
StartNoteChoices == {"C", "B"}
StartOctaveChoices == {2, 3}
FrameSpacings == {1, LeadInMs}
\* performance.now() minus the timestamp of the frame under way
PerfLags == {0, 1}
\* raw estimates detectPitch can hand to the tick: none, the pitch of C3
\* (200 cents below D3), and a pitch below the 80 Hz gate
RawPitches == {NoPitch, 4800, 3000}

\* ------------------------------------------------------------ pure helpers
JsAbs(x) == IF x < 0 THEN -x ELSE x

\* JavaScript %: the sign follows the dividend
JsRem(a, b) == IF a >= 0 THEN a % b ELSE -((-a) % b)

\* Array.prototype.indexOf on noteNames (0-based, -1 when absent)
NoteIndexOf(note) ==
    IF \E i \in 1..Len(noteNames) : noteNames[i] = note
    THEN (CHOOSE i \in 1..Len(noteNames) : noteNames[i] = note) - 1
    ELSE -1

getFrequency(note, octave) == ((octave + 1) * 12 + NoteIndexOf(note)) * 100

getCentsDifference(detected, target) == detected - target

noteToSemitone(note, octave) == octave * 12 + NoteIndexOf(note)

\* ((semitone % 12) + 12) % 12
ChromaticIndex(semitone) == JsRem(JsRem(semitone, 12) + 12, 12)

\* semitoneToNote with the octave truncated towards zero instead of floored
semitoneToNoteTruncating(semitone) ==
    [note |-> noteNames[ChromaticIndex(semitone) + 1],
     octave |-> IF semitone >= 0 THEN semitone \div 12
                ELSE -((-semitone) \div 12)]

\* Math.floor(semitone / 12) is \div, which rounds towards minus infinity
semitoneToNote(semitone) ==
    [note |-> noteNames[ChromaticIndex(semitone) + 1],
     octave |-> semitone \div 12]

\* the seven steps of the staff, and the names applyAccidental gives them
Steps == {"C", "D", "E", "F", "G", "A", "B"}

applyAccidental(baseNote, accidental) ==
    IF accidental = "sharp"
    THEN [C |-> "C#", D |-> "D#", E |-> "E#", F |-> "F#", G |-> "G#",
          A |-> "A#", B |-> "B#"][baseNote]
    ELSE IF accidental = "flat"
    THEN [C |-> "Cb", D |-> "Db", E |-> "Eb", F |-> "Fb", G |-> "Gb",
          A |-> "Ab", B |-> "Bb"][baseNote]
    ELSE baseNote

\* note.includes('b') and note.replace('b', '')
IncludesFlat(note) == note \in {"Cb", "Db", "Eb", "Fb", "Gb", "Ab", "Bb"}
WithoutFlat(note) ==
    IF IncludesFlat(note)
    THEN [Cb |-> "C", Db |-> "D", Eb |-> "E", Fb |-> "F", Gb |-> "G",
          Ab |-> "A", Bb |-> "B"][note]
    ELSE note

\* flatToSharpEquivalent of the note selector
flatToSharpEquivalent(note, octave) ==
    LET flatToSharp ==
            [D |-> [note |-> "C#", octaveAdjust |-> 0],
             E |-> [note |-> "D#", octaveAdjust |-> 0],
             G |-> [note |-> "F#", octaveAdjust |-> 0],
             A |-> [note |-> "G#", octaveAdjust |-> 0],
             B |-> [note |-> "A#", octaveAdjust |-> 0],
             C |-> [note |-> "B", octaveAdjust |-> -1],
             F |-> [note |-> "E", octaveAdjust |-> 0]]
        equiv == flatToSharp[WithoutFlat(note)]
    IN IF ~IncludesFlat(note) THEN [note |-> note, octave |-> octave]
       ELSE [note |-> equiv.note, octave |-> octave + equiv.octaveAdjust]

\* parseMusicXMLPart: the note name and octave read from a <pitch> element
ParsedPitch(step, alter, octave) ==
    LET flatToSharp == [D |-> "C#", E |-> "D#", G |-> "F#", A |-> "G#", B |-> "A#"]
    IN [note |-> IF alter = 1 THEN applyAccidental(step, "sharp")
                 ELSE IF alter = -1 /\ step \in DOMAIN flatToSharp
                      THEN flatToSharp[step]
                 ELSE step,
        octave |-> octave]

\* rationals num/den with den > 0
Rat(n, d) == [num |-> n, den |-> d]
RatLeq(a, b) == a.num * b.den <= b.num * a.den
RatAdd(a, b) == Rat(a.num * b.den + b.num * a.den, a.den * b.den)
\* Math.round: nearest integer, halves towards +infinity
RatRound(a) == (2 * a.num + a.den) \div (2 * a.den)


\* getAdjustedDuration with the tempo factor upside down
getAdjustedDurationInverted(baseDuration, tempo) == Rat(baseDuration * tempo, 100)

getAdjustedDuration(baseDuration, tempo) == Rat(baseDuration * 100, tempo)

RECURSIVE SumAbs(_)
SumAbs(s) == IF s = <<>> THEN 0 ELSE JsAbs(Head(s)) + SumAbs(Tail(s))

RECURSIVE Insert(_, _)
Insert(x, s) ==
    IF s = <<>> THEN <<x>>
    ELSE IF x <= Head(s) THEN <<x>> \o s
    ELSE <<Head(s)>> \o Insert(x, Tail(s))

\* [...a].sort((a, b) => a - b)
RECURSIVE Sorted(_)
Sorted(s) == IF s = <<>> THEN <<>> ELSE Insert(Head(s), Sorted(Tail(s)))

\* (a + b) / 2 of two frequencies, on the cents scale (a <= b): the
\* arithmetic mean in Hz lies d*d*ln2/9600 cents above the midpoint
HzMean(a, b) == a + (b - a) \div 2 + ((b - a) * (b - a)) \div 13850

\* getSmoothedPitch: the window after the push/shift, and the value returned
SmoothedWindow(recent, newPitch) ==
    LET pushed == Append(recent, newPitch)
    IN IF Len(pushed) > SmoothingWindow THEN Tail(pushed) ELSE pushed

\* getSmoothedPitch taking the upper of the two middle values of an even
\* window
getSmoothedPitchUpperMiddle(recent, newPitch) ==
    LET w == SmoothedWindow(recent, newPitch)
        sorted == Sorted(w)
        mid == Len(sorted) \div 2
    IN IF Len(w) < 3 THEN newPitch ELSE sorted[mid + 1]

getSmoothedPitch(recent, newPitch) ==
    LET w == SmoothedWindow(recent, newPitch)
        sorted == Sorted(w)
        mid == Len(sorted) \div 2
    IN IF Len(w) < 3 THEN newPitch
       ELSE IF Len(sorted) % 2 = 1 THEN sorted[mid + 1]
       ELSE HzMean(sorted[mid], sorted[mid + 1])

\* the accuracy component with the limits of its steps excluded
AccuracyScoreStrict(sum, n) ==
    IF sum < 25 * n THEN Rat(60, 1)
    ELSE IF sum < 50 * n THEN Rat(55, 1)
    ELSE IF sum < 75 * n THEN Rat(50, 1)
    ELSE IF sum < 100 * n THEN Rat(40, 1)
    ELSE IF sum < 150 * n THEN Rat(30, 1)
    ELSE IF RatLeq(Rat(10, 1), Rat(650 * n - sum, 20 * n))
         THEN Rat(650 * n - sum, 20 * n)
         ELSE Rat(10, 1)

\* accuracy component of calculateNoteScore, from sum |cents| and the count
AccuracyScore(sum, n) ==
    IF sum <= 25 * n THEN Rat(60, 1)
    ELSE IF sum <= 50 * n THEN Rat(55, 1)
    ELSE IF sum <= 75 * n THEN Rat(50, 1)
    ELSE IF sum <= 100 * n THEN Rat(40, 1)
    ELSE IF sum <= 150 * n THEN Rat(30, 1)
    ELSE IF RatLeq(Rat(10, 1), Rat(650 * n - sum, 20 * n))
         THEN Rat(650 * n - sum, 20 * n)
         ELSE Rat(10, 1)

\* calculateNoteScore scoring a note without samples from its default
\* avgCents of 100
calculateNoteScoreDefaultAvg(pitchSamples, onPitch, totalTime) ==
    LET n == Len(pitchSamples)
        acc == IF n = 0 THEN Rat(40, 1) ELSE AccuracyScore(SumAbs(pitchSamples), n)
        timeScore == Rat(onPitch * totalTime.den * 40, totalTime.num)
    IN RatRound(RatAdd(acc, timeScore))

\* totalTime is the tempo-adjusted duration, a rational
calculateNoteScore(pitchSamples, onPitch, totalTime) ==
    IF Len(pitchSamples) = 0 THEN 0
    ELSE LET acc == AccuracyScore(SumAbs(pitchSamples), Len(pitchSamples))
             timeScore == Rat(onPitch * totalTime.den * 40, totalTime.num)
         IN RatRound(RatAdd(acc, timeScore))

\* ---- the Number type: IEEE 754 doubles, needed where a quotient is not exact
\* significant bits of a double
Precision == 53

\* the bits of a natural number, most significant first
RECURSIVE NatBits(_)
NatBits(n) == IF n = 0 THEN <<>> ELSE Append(NatBits(n \div 2), n % 2)

RECURSIVE BitsNat(_)
BitsNat(bits) ==
    IF bits = <<>> THEN 0
    ELSE 2 * BitsNat(SubSeq(bits, 1, Len(bits) - 1)) + bits[Len(bits)]

RECURSIVE Increment(_)
Increment(bits) ==
    IF bits = <<>> THEN <<1>>
    ELSE IF bits[Len(bits)] = 0 THEN [bits EXCEPT ![Len(bits)] = 1]
    ELSE Append(Increment(SubSeq(bits, 1, Len(bits) - 1)), 0)

\* a double is bits * 2^exp; rounding is to nearest, ties to even, where
\* guard is the first bit left out and sticky tells of a later one
Rounded(bits, exp, guard, sticky) ==
    LET up == IF guard = 1 /\ (sticky \/ bits[Len(bits)] = 1)
              THEN Increment(bits) ELSE bits
    IN IF Len(up) > Precision
       THEN [bits |-> SubSeq(up, 1, Precision), exp |-> exp + 1]
       ELSE [bits |-> up, exp |-> exp]

\* long division of r by den after the bits found so far
RECURSIVE DivideBits(_, _, _, _)
DivideBits(bits, exp, r, den) ==
    LET bit == IF 2 * r >= den THEN 1 ELSE 0
    IN IF Len(bits) = Precision
       THEN Rounded(bits, exp, bit, 2 * r - bit * den # 0)
       ELSE DivideBits(IF bits = <<>> /\ bit = 0 THEN <<>> ELSE Append(bits, bit),
                       exp - 1, 2 * r - bit * den, den)

\* n / den of two positive integers
FloatDivide(n, den) == DivideBits(NatBits(n \div den), 0, n % den, den)

\* the exact product bits * k: done holds the bits of the product below
\* bit i, carry what they pass on
RECURSIVE TimesFrom(_, _, _, _, _)
TimesFrom(bits, i, k, carry, done) ==
    IF i = 0 THEN NatBits(carry) \o done
    ELSE TimesFrom(bits, i - 1, k, (bits[i] * k + carry) \div 2,
                   <<(bits[i] * k + carry) % 2>> \o done)

TimesSmall(bits, k) == TimesFrom(bits, Len(bits), k, 0, <<>>)

\* x * k for a positive integer k
FloatTimes(x, k) ==
    LET product == TimesSmall(x.bits, k)
        extra == Len(product) - Precision
    IN IF extra <= 0 THEN [bits |-> product, exp |-> x.exp]
       ELSE Rounded(SubSeq(product, 1, Precision), x.exp + extra,
                    product[Precision + 1],
                    \E i \in (Precision + 2)..Len(product) : product[i] = 1)

\* Math.round of a positive double below 2^31
MathRound(x) ==
    LET whole == Len(x.bits) + x.exp
    IN IF whole < 0 THEN 0
       ELSE BitsNat(SubSeq(x.bits, 1, whole))
            + (IF whole < Len(x.bits) THEN x.bits[whole + 1] ELSE 0)

\* the percentage as a rounded exact quotient
PercentageExact(scores) ==
    LET total == SumAbs([i \in 1..Len(scores) |-> scores[i].score])
    IN RatRound(Rat(total * 100, Len(scores) * 100))

\* finishSequence: Math.round((totalScore / maxScore) * 100)
Percentage(scores) ==
    LET total == SumAbs([i \in 1..Len(scores) |-> scores[i].score])
    IN IF total = 0 THEN 0
       ELSE MathRound(FloatTimes(FloatDivide(total, Len(scores) * 100), 100))

Grade(percentage) ==
    IF percentage >= 85 THEN "A"
    ELSE IF percentage >= 70 THEN "B"
    ELSE IF percentage >= 55 THEN "C"
    ELSE IF percentage >= 40 THEN "D"
    ELSE "F"

\* loadSequence: the transposed copy of a template, or the sequence kept
\* when the template is missing or empty
TemplateNotes(id, custom) == IF id = "custom" THEN custom ELSE SimpleScaleNotes

Transposed(notes, selectedNote, selectedOctave) ==
    LET transposition == noteToSemitone(selectedNote, selectedOctave)
                           - noteToSemitone(notes[1].note, notes[1].octave)
    IN [i \in 1..Len(notes) |->
          LET t == semitoneToNote(noteToSemitone(notes[i].note, notes[i].octave)
                                    + transposition)
          IN [note |-> t.note, octave |-> t.octave,
              duration |-> notes[i].duration, noteType |-> notes[i].noteType,
              frequency |-> getFrequency(t.note, t.octave)]]

loadSequence(id, custom, selectedNote, selectedOctave, current) ==
    IF TemplateNotes(id, custom) = <<>> THEN current
    ELSE Transposed(TemplateNotes(id, custom), selectedNote, selectedOctave)


\* ------------------------------------------------------------------ state
VARIABLES
    frameLeft,              \* callbacks of the frame under way still to run
    rafQueue,               \* callbacks handed to requestAnimationFrame
    animationId,            \* 0 is null
    micStream,              \* 0 is null, else a stream id
    liveStreams,            \* streams whose tracks were not stopped
    pendingStarts,          \* startSequence calls awaiting getUserMedia
    isPlaying, isCountingDown,
    currentSequence, currentNoteIndex, noteStartTime, noteScores,
    pitchSamplesForNote, pitchHistory, timeOnPitch,
    recentPitches, lastSequenceSampleTime,
    tempoPercent, sequenceSelectValue, startNoteValue, startOctaveValue,
    customNotes,            \* sequences['custom'].notes
    initialLoadPending,     \* the setTimeout(..., 100) of the initial load
    inputs,                 \* user inputs so far
    sequenceStatus, resultsShown,
    run,                    \* history: runs started so far
    endedUpTo,              \* history: runs <= endedUpTo were stopped/finished
    isSequenceMode, isRunning,
    pendingFreeStarts,      \* start() calls awaiting getUserMedia
    freePitchHistory,       \* the global pitchHistory of free practice
    lastSampleTime,
    arrived,                \* history: entries pushed since pitchHistory was cleared
    isPreviewing,
    previewLeft,            \* tones of the preview still to end
    previewBtnDisabled, goBtnDisabled,
    arg, res                \* input and result of a function applied on its own

flagVars == <<isPlaying, isCountingDown>>
noteVars == <<currentNoteIndex, noteScores, pitchSamplesForNote, pitchHistory,
              timeOnPitch, recentPitches>>
timeVars == <<noteStartTime, lastSequenceSampleTime>>
micVars == <<micStream, liveStreams>>
startVars == <<pendingStarts, inputs>>
selVars == <<tempoPercent, sequenceSelectValue, startNoteValue,
             startOctaveValue, customNotes, initialLoadPending>>
histVars == <<run, endedUpTo>>
seqVarsButInputs ==
    <<frameLeft, rafQueue, animationId, micVars, pendingStarts, flagVars,
      currentSequence, noteVars, timeVars, selVars, sequenceStatus,
      resultsShown, histVars>>
seqVars == <<frameLeft, rafQueue, animationId, micVars, startVars, flagVars,
             currentSequence, noteVars, timeVars, selVars, sequenceStatus,
             resultsShown, histVars>>
freeRest == <<isSequenceMode, isRunning, pendingFreeStarts, freePitchHistory,
              arrived>>
freeVars == <<freeRest, lastSampleTime>>
pureVars == <<arg, res>>
previewVars == <<isPreviewing, previewLeft, goBtnDisabled>>
previewAll == <<previewVars, previewBtnDisabled>>
\* what the sequence challenge leaves alone
otherVars == <<freeVars, pureVars, previewVars>>

vars == <<frameLeft, rafQueue, animationId, micVars, startVars, flagVars,
          currentSequence, noteVars, timeVars, selVars, sequenceStatus,
          resultsShown, histVars, freeVars, pureVars, previewAll>>

ErrorMic == "Error: Could not access microphone."

\* no function is being applied on its own
NoArg == [fn |-> "none"]

\* the state once the script has run
PageLoad ==
    /\ frameLeft = 0 /\ rafQueue = <<>> /\ animationId = 0
    /\ micStream = 0 /\ liveStreams = {}
    /\ pendingStarts = 0 /\ inputs = 0
    /\ isPlaying = FALSE /\ isCountingDown = FALSE
    /\ currentSequence = <<>> /\ currentNoteIndex = 0 /\ noteStartTime = 0
    /\ noteScores = <<>> /\ pitchSamplesForNote = <<>> /\ pitchHistory = <<>>
    /\ timeOnPitch = 0 /\ recentPitches = <<>> /\ lastSequenceSampleTime = 0
    /\ tempoPercent = 100 /\ sequenceSelectValue = "simple-scale"
    /\ startNoteValue = "C" /\ startOctaveValue = 3
    /\ customNotes = <<>> /\ initialLoadPending = TRUE
    /\ sequenceStatus = "" /\ resultsShown = FALSE
    /\ run = 0 /\ endedUpTo = 0
    /\ isSequenceMode = TRUE /\ isRunning = FALSE /\ pendingFreeStarts = 0
    /\ freePitchHistory = <<>> /\ arrived = <<>>
    \* lastSampleTime = 0 is the page load, which lies further back than the
    \* sample interval at the first frame
    /\ lastSampleTime = -SampleInterval
    /\ isPreviewing = FALSE /\ previewLeft = 0
    /\ previewBtnDisabled = FALSE /\ goBtnDisabled = FALSE

Init == PageLoad /\ arg = NoArg /\ res = NoArg

\* ------------------------------------------------- requestAnimationFrame
\* ids are reused once free; an id never equals a queued one or animationId
NewId(queue, aid) ==
    CHOOSE n \in 1..(Len(queue) + 2) :
        /\ n # aid /\ \A i \in 1..Len(queue) : queue[i].id # n
        /\ \A m \in 1..(n - 1) : m = aid \/ \E i \in 1..Len(queue) : queue[i].id = m

Callback(kind, id, r, start, beat, last) ==
    [kind |-> kind, id |-> id, run |-> r, countdownStartTime |-> start,
     beatIntervalMs |-> beat, lastDisplayedBeat |-> last]

AnalyzeCallback(id, r) == Callback("analyzeSequence", id, r, 0, Rat(0, 1), -1)

\* cancelAnimationFrame(animationId)
Cancelled(queue) ==
    LET keep(e) == e.id # animationId
    IN IF animationId = 0 THEN queue ELSE SelectSeq(queue, keep)

\* a timestamp seen from a frame dt units later
Shift(t, dt, horizon) == IF t - dt < -horizon THEN -horizon ELSE t - dt

ShiftQueue(queue, dt) ==
    [i \in 1..Len(queue) |->
        IF queue[i].kind = "updateVisuals"
        THEN [queue[i] EXCEPT !.countdownStartTime = Shift(@, dt, Horizon)]
        ELSE queue[i]]

\* every queued callback is a countdown closure that is still in its lead-in
\* at the next frame: such frames only reschedule, and are taken in one jump
InLeadIn ==
    \A i \in 1..Len(rafQueue) :
        /\ rafQueue[i].kind = "updateVisuals"
        /\ 1 < rafQueue[i].countdownStartTime

\* every countdown closure counts CountdownBeats beats within MaxTime
InFineWindow ==
    \A i \in 1..Len(rafQueue) :
        rafQueue[i].kind = "updateVisuals" =>
            RatLeq(Rat(rafQueue[i].beatIntervalMs.num * CountdownBeats,
                       rafQueue[i].beatIntervalMs.den), Rat(MaxTime, 1))

\* a callback runs in a new frame, dt units after the last one, or in the
\* frame under way
FrameStep(dt) ==
    /\ rafQueue # <<>>
    /\ IF frameLeft > 0 THEN dt = 0
       ELSE IF InLeadIn THEN dt = LeadInMs
       ELSE /\ dt > 0
            /\ dt < LeadInMs => InFineWindow

LeftAfter == (IF frameLeft > 0 THEN frameLeft ELSE Len(rafQueue)) - 1


\* ------------------------------------------------------- user and timers
\* goBtn click while idle, and the first statement of startSequence
GoClickStart ==
    /\ frameLeft = 0
    /\ UNCHANGED otherVars
    /\ ~goBtnDisabled
    /\ UNCHANGED previewBtnDisabled
    /\ isSequenceMode
    /\ ~(isPlaying \/ isCountingDown)
    /\ inputs < MaxInputs
    /\ pendingStarts' = pendingStarts + 1
    /\ inputs' = inputs + 1
    /\ UNCHANGED <<frameLeft, rafQueue, animationId, micVars, flagVars,
                   currentSequence, noteVars, timeVars, selVars,
                   sequenceStatus, resultsShown, histVars>>

\* stopSequence without the track.stop() loop: the stream stays live
GoClickStopKeepsStream ==
    /\ frameLeft = 0
    /\ UNCHANGED otherVars
    /\ ~goBtnDisabled
    /\ previewBtnDisabled' = FALSE
    /\ isSequenceMode
    /\ isPlaying \/ isCountingDown
    /\ inputs < MaxInputs
    /\ inputs' = inputs + 1
    /\ isPlaying' = FALSE /\ isCountingDown' = FALSE
    /\ rafQueue' = Cancelled(rafQueue)
    /\ animationId' = 0
    /\ micStream' = 0
    /\ sequenceStatus' = ""
    /\ endedUpTo' = run
    /\ UNCHANGED <<frameLeft, pendingStarts, currentSequence, noteVars, timeVars,
                   selVars, resultsShown, run, liveStreams>>

\* goBtn click while counting down or playing: stopSequence
GoClickStop ==
    /\ frameLeft = 0
    /\ UNCHANGED otherVars
    /\ ~goBtnDisabled
    /\ previewBtnDisabled' = FALSE
    /\ isSequenceMode
    /\ isPlaying \/ isCountingDown
    /\ inputs < MaxInputs
    /\ inputs' = inputs + 1
    /\ isPlaying' = FALSE /\ isCountingDown' = FALSE
    /\ rafQueue' = Cancelled(rafQueue)
    /\ animationId' = 0
    /\ liveStreams' = liveStreams \ {micStream}
    /\ micStream' = 0
    /\ sequenceStatus' = ""
    /\ endedUpTo' = run
    /\ UNCHANGED <<frameLeft, pendingStarts, currentSequence, noteVars, timeVars,
                   selVars, resultsShown, run>>

\* retryBtn click: hide the results, then startSequence
RetryClick ==
    /\ frameLeft = 0
    /\ UNCHANGED otherVars
    /\ UNCHANGED previewBtnDisabled
    /\ isSequenceMode
    /\ resultsShown
    /\ resultsShown' = FALSE
    /\ inputs < MaxInputs
    /\ inputs' = inputs + 1
    /\ pendingStarts' = IF isPlaying \/ isCountingDown THEN pendingStarts
                        ELSE pendingStarts + 1
    /\ UNCHANGED <<frameLeft, rafQueue, animationId, micVars, flagVars,
                   currentSequence, noteVars, timeVars, selVars,
                   sequenceStatus, histVars>>

\* startSequence without the reset of the run state
AcquireSuccessKeepsRunState ==
    \E lag \in PerfLags :
    /\ frameLeft = 0
    /\ UNCHANGED otherVars
    /\ previewBtnDisabled' = TRUE
    /\ pendingStarts > 0
    /\ ~initialLoadPending
    /\ pendingStarts' = pendingStarts - 1
    /\ micStream' = run + 1
    /\ liveStreams' = liveStreams \cup {run + 1}
    /\ run' = run + 1
    /\ UNCHANGED noteVars
    /\ resultsShown' = FALSE
    /\ isCountingDown' = TRUE
    /\ IF currentSequence = <<>>
       THEN /\ lag = 0
            /\ sequenceStatus' = ErrorMic
            /\ UNCHANGED rafQueue
       ELSE /\ sequenceStatus' = "Preparing..."
            /\ rafQueue' = Append(rafQueue,
                   Callback("updateVisuals", NewId(rafQueue, animationId),
                            run + 1, lag + LeadInMs,
                            getAdjustedDuration(currentSequence[1].duration,
                                                tempoPercent), -1))
    /\ UNCHANGED <<frameLeft, animationId, inputs, isPlaying,
                   currentSequence, timeVars, selVars, endedUpTo>>

\* getUserMedia resolves: the rest of startSequence, and runCountdown, which
\* throws into startSequence's catch when the sequence has no first note
AcquireSuccess ==
    \E lag \in PerfLags :
    /\ frameLeft = 0
    /\ UNCHANGED otherVars
    /\ previewBtnDisabled' = TRUE
    /\ pendingStarts > 0
    /\ ~initialLoadPending
    /\ pendingStarts' = pendingStarts - 1
    /\ micStream' = run + 1
    /\ liveStreams' = liveStreams \cup {run + 1}
    /\ run' = run + 1
    /\ currentNoteIndex' = 0 /\ noteScores' = <<>>
    /\ pitchSamplesForNote' = <<>> /\ pitchHistory' = <<>>
    /\ timeOnPitch' = 0 /\ recentPitches' = <<>>
    /\ resultsShown' = FALSE
    /\ isCountingDown' = TRUE
    /\ IF currentSequence = <<>>
       THEN /\ lag = 0
            /\ sequenceStatus' = ErrorMic
            /\ UNCHANGED rafQueue
       ELSE /\ sequenceStatus' = "Preparing..."
            /\ rafQueue' = Append(rafQueue,
                   Callback("updateVisuals", NewId(rafQueue, animationId),
                            run + 1, lag + LeadInMs,
                            getAdjustedDuration(currentSequence[1].duration,
                                                tempoPercent), -1))
    /\ UNCHANGED <<frameLeft, animationId, inputs, isPlaying,
                   currentSequence, timeVars, selVars, endedUpTo>>

\* startSequence with the reset of the run state moved before the await
AcquireFailAfterReset ==
    /\ frameLeft = 0
    /\ UNCHANGED otherVars
    /\ UNCHANGED previewBtnDisabled
    /\ pendingStarts > 0
    /\ ~initialLoadPending
    /\ pendingStarts' = pendingStarts - 1
    /\ sequenceStatus' = ErrorMic
    /\ currentNoteIndex' = 0 /\ noteScores' = <<>>
    /\ pitchSamplesForNote' = <<>> /\ pitchHistory' = <<>>
    /\ timeOnPitch' = 0 /\ recentPitches' = <<>>
    /\ UNCHANGED <<frameLeft, rafQueue, animationId, micVars, inputs,
                   flagVars, currentSequence, timeVars, selVars,
                   resultsShown, histVars>>

\* getUserMedia rejects: the catch of startSequence
AcquireFail ==
    /\ frameLeft = 0
    /\ UNCHANGED otherVars
    /\ UNCHANGED previewBtnDisabled
    /\ pendingStarts > 0
    /\ ~initialLoadPending
    /\ pendingStarts' = pendingStarts - 1
    /\ sequenceStatus' = ErrorMic
    /\ UNCHANGED <<frameLeft, rafQueue, animationId, micVars, inputs,
                   flagVars, currentSequence, noteVars, timeVars, selVars,
                   resultsShown, histVars>>

\* tempoSlider input
TempoChange ==
    \E t \in TempoChoices \ {tempoPercent} :
    /\ frameLeft = 0
    /\ UNCHANGED otherVars
    /\ UNCHANGED previewBtnDisabled
    /\ isSequenceMode
    /\ inputs < MaxInputs
    /\ inputs' = inputs + 1
    /\ tempoPercent' = t
    /\ UNCHANGED <<frameLeft, rafQueue, animationId, micVars, pendingStarts,
                   flagVars, currentSequence, noteVars, timeVars,
                   sequenceSelectValue, startNoteValue, startOctaveValue,
                   customNotes, initialLoadPending, sequenceStatus,
                   resultsShown, histVars>>

\* what loadSequence(id) leaves in currentSequence and in the results panel
LoadInto(id, custom, selectedNote, selectedOctave) ==
    /\ currentSequence' =
           loadSequence(id, custom, selectedNote, selectedOctave, currentSequence)
    /\ resultsShown' = IF TemplateNotes(id, custom) = <<>> THEN resultsShown
                       ELSE FALSE

SequenceSelectChange ==
    \E id \in SequenceIds \ {sequenceSelectValue} :
    /\ frameLeft = 0
    /\ UNCHANGED otherVars
    /\ UNCHANGED previewBtnDisabled
    /\ isSequenceMode
    /\ inputs < MaxInputs
    /\ inputs' = inputs + 1
    /\ sequenceSelectValue' = id
    /\ IF id = "custom" /\ customNotes = <<>>
       THEN currentSequence' = <<>> /\ UNCHANGED resultsShown
       ELSE LoadInto(id, customNotes, startNoteValue, startOctaveValue)
    /\ UNCHANGED <<frameLeft, rafQueue, animationId, micVars, pendingStarts,
                   flagVars, noteVars, timeVars, tempoPercent, startNoteValue,
                   startOctaveValue, customNotes, initialLoadPending,
                   sequenceStatus, histVars>>

StartNoteChange ==
    \E n \in StartNoteChoices \ {startNoteValue} :
    /\ frameLeft = 0
    /\ UNCHANGED otherVars
    /\ UNCHANGED previewBtnDisabled
    /\ isSequenceMode
    /\ inputs < MaxInputs
    /\ inputs' = inputs + 1
    /\ startNoteValue' = n
    /\ LoadInto(sequenceSelectValue, customNotes, n, startOctaveValue)
    /\ UNCHANGED <<frameLeft, rafQueue, animationId, micVars, pendingStarts,
                   flagVars, noteVars, timeVars, tempoPercent,
                   sequenceSelectValue, startOctaveValue, customNotes,
                   initialLoadPending, sequenceStatus, histVars>>

StartOctaveChange ==
    \E o \in StartOctaveChoices \ {startOctaveValue} :
    /\ frameLeft = 0
    /\ UNCHANGED otherVars
    /\ UNCHANGED previewBtnDisabled
    /\ isSequenceMode
    /\ inputs < MaxInputs
    /\ inputs' = inputs + 1
    /\ startOctaveValue' = o
    /\ LoadInto(sequenceSelectValue, customNotes, startNoteValue, o)
    /\ UNCHANGED <<frameLeft, rafQueue, animationId, micVars, pendingStarts,
                   flagVars, noteVars, timeVars, tempoPercent,
                   sequenceSelectValue, startNoteValue, customNotes,
                   initialLoadPending, sequenceStatus, histVars>>

\* loadCustomSequence(notes, filename)
loadCustomSequence(notes) ==
    /\ frameLeft = 0
    /\ UNCHANGED otherVars
    /\ UNCHANGED previewBtnDisabled
    /\ isSequenceMode
    /\ sequenceSelectValue = "custom"
    /\ inputs < MaxInputs
    /\ inputs' = inputs + 1
    /\ customNotes' = notes
    /\ startNoteValue' = notes[1].note
    /\ startOctaveValue' = notes[1].octave
    /\ LoadInto("custom", notes, notes[1].note, notes[1].octave)
    /\ sequenceStatus' = "Loaded"
    /\ UNCHANGED <<frameLeft, rafQueue, animationId, micVars, pendingStarts,
                   flagVars, noteVars, timeVars, tempoPercent,
                   sequenceSelectValue, initialLoadPending, histVars>>

\* a MusicXML file parsed without error
ImportCustom == \E notes \in ImportedNoteLists : loadCustomSequence(notes)

ErrorImport == "Error: Invalid MusicXML file"

\* a MusicXML file that getMusicXMLParts or parseMusicXMLPart rejects: the
\* catch of the musicxmlFile change listener
ImportFail ==
    /\ frameLeft = 0
    /\ UNCHANGED otherVars
    /\ UNCHANGED previewBtnDisabled
    /\ isSequenceMode
    /\ sequenceSelectValue = "custom"
    /\ inputs < MaxInputs
    /\ inputs' = inputs + 1
    /\ sequenceStatus' = ErrorImport
    /\ UNCHANGED <<frameLeft, rafQueue, animationId, micVars, pendingStarts,
                   flagVars, currentSequence, noteVars, timeVars, selVars,
                   resultsShown, histVars>>

\* the 3 s timer of loadCustomSequence, while it still has something to clear
LoadedStatusTimeout ==
    /\ frameLeft = 0
    /\ UNCHANGED otherVars
    /\ UNCHANGED previewBtnDisabled
    /\ sequenceStatus = "Loaded"
    /\ sequenceStatus' = ""
    /\ UNCHANGED <<frameLeft, rafQueue, animationId, micVars, startVars,
                   flagVars, currentSequence, noteVars, timeVars, selVars,
                   resultsShown, histVars>>

\* setTimeout(() => loadSequence(sequenceSelect.value || 'simple-scale'), 100)
InitialLoad ==
    /\ frameLeft = 0
    /\ UNCHANGED otherVars
    /\ UNCHANGED previewBtnDisabled
    /\ initialLoadPending
    /\ initialLoadPending' = FALSE
    /\ LoadInto(sequenceSelectValue, customNotes, startNoteValue, startOctaveValue)
    /\ UNCHANGED <<frameLeft, rafQueue, animationId, micVars, startVars,
                   flagVars, noteVars, timeVars, tempoPercent,
                   sequenceSelectValue, startNoteValue, startOctaveValue,
                   customNotes, sequenceStatus, histVars>>


\* ------------------------------------------------------ frame callbacks
GetReady(n) == IF n = 3 THEN "Get ready... 3"
               ELSE IF n = 2 THEN "Get ready... 2" ELSE "Get ready... 1"

StatusAfterBeat(status, last, beat) ==
    IF beat = last THEN status
    ELSE IF beat < 3 THEN GetReady(3 - beat)
    ELSE IF beat = 3 THEN "Sing!" ELSE status

\* updateVisuals, the closure runCountdown schedules, run dt units after the
\* last frame with performance.now() lag units past the frame's timestamp
updateVisuals(dt, lag) ==
    LET cb == Head(ShiftQueue(rafQueue, dt))
        rest == Tail(ShiftQueue(rafQueue, dt))
        perfNow == lag
        id == NewId(rest, animationId)
        beat == cb.beatIntervalMs
        elapsed == perfNow - cb.countdownStartTime
        currentBeat == (elapsed * beat.den) \div beat.num
        noteStart == Shift(noteStartTime, dt, Horizon)
        lastSample == Shift(lastSequenceSampleTime, dt, SequenceSampleInterval)
    IN
    /\ FrameStep(dt)
    /\ cb.kind = "updateVisuals"
    /\ frameLeft' = LeftAfter
    /\ IF ~isCountingDown
       THEN /\ lag = 0
            /\ rafQueue' = rest
            /\ noteStartTime' = noteStart
            /\ lastSequenceSampleTime' = lastSample
            /\ UNCHANGED <<animationId, flagVars, sequenceStatus>>
       ELSE IF perfNow < cb.countdownStartTime
       THEN /\ rafQueue' = Append(rest, [cb EXCEPT !.id = id])
            /\ noteStartTime' = noteStart
            /\ lastSequenceSampleTime' = lastSample
            /\ UNCHANGED <<animationId, flagVars, sequenceStatus>>
       ELSE /\ sequenceStatus' =
                   StatusAfterBeat(sequenceStatus, cb.lastDisplayedBeat, currentBeat)
            /\ IF RatLeq(Rat(beat.num * CountdownBeats, beat.den), Rat(elapsed, 1))
               THEN /\ isCountingDown' = FALSE
                    /\ isPlaying' = TRUE
                    /\ noteStartTime' = perfNow
                    \* lastSequenceSampleTime = 0 is the page load, which
                    \* lies further back than the sample interval
                    /\ lastSequenceSampleTime' = -SequenceSampleInterval
                    /\ animationId' = id
                    /\ rafQueue' = Append(rest, AnalyzeCallback(id, cb.run))
               ELSE /\ rafQueue' = Append(rest,
                           [cb EXCEPT !.id = id, !.lastDisplayedBeat = currentBeat])
                    /\ noteStartTime' = noteStart
                    /\ lastSequenceSampleTime' = lastSample
                    /\ UNCHANGED <<animationId, flagVars>>
    /\ lastSampleTime' = Shift(lastSampleTime, dt, SampleInterval)
    /\ UNCHANGED <<micVars, startVars, currentSequence, noteVars, selVars,
                   resultsShown, histVars, freeRest, pureVars, previewVars>>
    /\ UNCHANGED previewBtnDisabled

RunUpdateVisuals ==
    \E dt \in FrameSpacings \cup {0}, lag \in PerfLags : updateVisuals(dt, lag)

\* callbacks of the frame under way that stopSequence cancels
CancelledInFrame(rest, k) ==
    IF animationId = 0 THEN 0
    ELSE Cardinality({i \in 1..Len(rest) : i <= k /\ rest[i].id = animationId})

\* the gate of the band without its upper limit
InBandNoUpperGate(raw) == raw # NoPitch /\ raw > BandLow
\* the gate on the raw estimate of detectPitch
InBand(raw) == raw # NoPitch /\ raw > BandLow /\ raw < BandHigh

\* analyzeSequence with advanceNote and finishSequence, run dt units after
\* the last frame; raw is what detectPitch returns if the tick samples, and
\* cap bounds the sampling ticks of one note
analyzeSequence(dt, lag, raw, cap) ==
    LET cb == Head(rafQueue)
        rest == Tail(ShiftQueue(rafQueue, dt))
        timestamp == 0
        noteStart == Shift(noteStartTime, dt, Horizon)
        lastSample == Shift(lastSequenceSampleTime, dt, SequenceSampleInterval)
        id == NewId(rest, animationId)
        again == Append(rest, AnalyzeCallback(id, cb.run))
        currentNote == currentSequence[currentNoteIndex + 1]
        adjustedDuration == getAdjustedDuration(currentNote.duration, tempoPercent)
        elapsed == timestamp - noteStart
        doSample == timestamp - lastSample >= SequenceSampleInterval
        inBand == InBand(raw)
        cents == getCentsDifference(getSmoothedPitch(recentPitches, raw),
                                    currentNote.frequency)
        taken == doSample /\ inBand
        recent1 == IF taken THEN SmoothedWindow(recentPitches, raw) ELSE recentPitches
        samples1 == IF taken THEN Append(pitchSamplesForNote, cents)
                    ELSE pitchSamplesForNote
        history1 == IF ~doSample THEN pitchHistory
                    ELSE Append(pitchHistory, IF inBand THEN <<cents>> ELSE <<>>)
        onPitch1 == IF taken /\ JsAbs(cents) <= 50
                    THEN timeOnPitch + SequenceSampleInterval ELSE timeOnPitch
        expired == RatLeq(adjustedDuration, Rat(elapsed, 1))
        entry == [note |-> currentNote.note, octave |-> currentNote.octave,
                  score |-> calculateNoteScore(samples1, onPitch1, adjustedDuration),
                  avgCents |-> IF Len(samples1) > 0
                               THEN Rat(SumAbs(samples1), Len(samples1))
                               ELSE Rat(100, 1),
                  timeOnPitch |-> onPitch1,
                  totalTime |-> currentNote.duration]
        scores1 == Append(noteScores, entry)
    IN
    /\ FrameStep(dt)
    /\ cb.kind = "analyzeSequence"
    /\ IF ~isPlaying \/ currentNoteIndex >= Len(currentSequence)
       THEN \* returns at once, or currentNote is undefined and the read of
            \* currentNote.duration throws out of the callback
            /\ lag = 0
            /\ rafQueue' = rest
            /\ frameLeft' = LeftAfter
            /\ noteStartTime' = noteStart
            /\ lastSequenceSampleTime' = lastSample
            /\ UNCHANGED <<animationId, micVars, flagVars, noteVars,
                           sequenceStatus, resultsShown, endedUpTo>>
       ELSE
            /\ doSample => Len(pitchHistory) < cap
            /\ lastSequenceSampleTime' = IF doSample THEN timestamp ELSE lastSample
            /\ IF ~expired
               THEN /\ lag = 0
                    /\ pitchSamplesForNote' = samples1
                    /\ pitchHistory' = history1
                    /\ timeOnPitch' = onPitch1
                    /\ recentPitches' = recent1
                    /\ noteStartTime' = noteStart
                    /\ rafQueue' = again
                    /\ animationId' = id
                    /\ frameLeft' = LeftAfter
                    /\ UNCHANGED <<currentNoteIndex, noteScores, micVars,
                                   flagVars, sequenceStatus, resultsShown,
                                   endedUpTo>>
               ELSE \* advanceNote
                    /\ noteScores' = scores1
                    /\ currentNoteIndex' = currentNoteIndex + 1
                    /\ pitchSamplesForNote' = <<>>
                    /\ pitchHistory' = <<>>
                    /\ timeOnPitch' = 0
                    /\ noteStartTime' = timestamp + lag
                    /\ recentPitches' = <<>>
                    /\ IF currentNoteIndex + 1 >= Len(currentSequence)
                       THEN \* finishSequence: stopSequence, then the results
                            /\ isPlaying' = FALSE /\ isCountingDown' = FALSE
                            /\ rafQueue' = Cancelled(rest)
                            /\ frameLeft' = LeftAfter - CancelledInFrame(rest, LeftAfter)
                            /\ animationId' = 0
                            /\ liveStreams' = liveStreams \ {micStream}
                            /\ micStream' = 0
                            /\ sequenceStatus' = ""
                            /\ endedUpTo' = run
                            /\ resultsShown' = TRUE
                       ELSE /\ rafQueue' = again
                            /\ animationId' = id
                            /\ frameLeft' = LeftAfter
                            /\ UNCHANGED <<micVars, flagVars, sequenceStatus,
                                           resultsShown, endedUpTo>>
    /\ lastSampleTime' = Shift(lastSampleTime, dt, SampleInterval)
    /\ UNCHANGED <<startVars, currentSequence, selVars, run, freeRest, pureVars, previewVars>>
    /\ previewBtnDisabled' = IF isPlaying /\ ~isPlaying' THEN FALSE
                              ELSE previewBtnDisabled

\* the tick run dt units after the last frame calls detectPitch
SamplingDue(dt) ==
    /\ isPlaying /\ currentNoteIndex < Len(currentSequence)
    /\ 0 - Shift(lastSequenceSampleTime, dt, SequenceSampleInterval)
           >= SequenceSampleInterval

\* what detectPitch can return to that tick
Estimates(dt, raws) == IF SamplingDue(dt) THEN raws ELSE {NoPitch}

RunAnalyzeSequence ==
    \E dt \in FrameSpacings \cup {0}, lag \in PerfLags :
        \E raw \in Estimates(dt, RawPitches) :
            analyzeSequence(dt, lag, raw, MaxSamplesPerNote)

\* ---------------------------------------------------------- free practice
\* raw estimates of free practice: none, A4, 100 cents above A4, and pitches
\* below 80 Hz and above 1000 Hz
FreeRawPitches == {NoPitch, 6900, 7000, 3000, 9000}

AnalyzeFreeCallback(id) == Callback("analyze", id, 0, 0, Rat(0, 1), -1)

\* ids of the streams start() acquires are negative, those of startSequence
\* positive
NewFreeStream ==
    CHOOSE n \in 1..(Cardinality(liveStreams) + 2) :
        /\ -n \notin liveStreams \cup {micStream}
        /\ \A m \in 1..(n - 1) : -m \in liveStreams \cup {micStream}

\* the last n entries of s
KeepLast(s, n) == IF Len(s) > n THEN SubSeq(s, Len(s) - n + 1, Len(s)) ELSE s

\* the sliding window emptied from the wrong end: pop() for shift()
SlideWindowFromEnd(history) ==
    IF Len(history) > maxSamples THEN SubSeq(history, 1, maxSamples) ELSE history

\* while (pitchHistory.length > maxSamples) pitchHistory.shift()
RECURSIVE SlideWindow(_)
SlideWindow(history) ==
    IF Len(history) > maxSamples THEN SlideWindow(Tail(history)) ELSE history

\* stop() and stopSequence(): the part on animationId and micStream
StopLoop ==
    /\ rafQueue' = Cancelled(rafQueue)
    /\ animationId' = 0
    /\ liveStreams' = liveStreams \ {micStream}
    /\ micStream' = 0

\* modeFreeBtn click: setMode('free')
SetModeFree ==
    /\ frameLeft = 0
    /\ inputs < MaxInputs
    /\ inputs' = inputs + 1
    /\ isSequenceMode' = FALSE
    /\ IF isPlaying
       THEN /\ StopLoop
            /\ isPlaying' = FALSE /\ isCountingDown' = FALSE
            /\ sequenceStatus' = ""
            /\ endedUpTo' = run
       ELSE UNCHANGED <<rafQueue, animationId, micVars, flagVars,
                        sequenceStatus, endedUpTo>>
    /\ UNCHANGED <<frameLeft, pendingStarts, currentSequence, noteVars, timeVars,
                   selVars, resultsShown, run, isRunning, pendingFreeStarts,
                   freePitchHistory, arrived, lastSampleTime, pureVars, previewVars>>
    /\ previewBtnDisabled' = IF isPlaying THEN FALSE ELSE previewBtnDisabled

\* modeSequenceBtn click: setMode('sequence')
SetModeSequence ==
    /\ frameLeft = 0
    /\ inputs < MaxInputs
    /\ inputs' = inputs + 1
    /\ isSequenceMode' = TRUE
    /\ isRunning' = FALSE
    /\ IF isRunning THEN StopLoop
       ELSE UNCHANGED <<rafQueue, animationId, micVars>>
    /\ LoadInto(sequenceSelectValue, customNotes, startNoteValue, startOctaveValue)
    /\ UNCHANGED <<frameLeft, pendingStarts, flagVars, noteVars, timeVars,
                   selVars, sequenceStatus, histVars, pendingFreeStarts,
                   freePitchHistory, arrived, lastSampleTime, pureVars, previewVars>>
    /\ UNCHANGED previewBtnDisabled

\* startBtn click while idle, and start() up to its await
StartClick ==
    /\ frameLeft = 0
    /\ ~isSequenceMode /\ ~isRunning
    /\ inputs < MaxInputs
    /\ inputs' = inputs + 1
    /\ pendingFreeStarts' = pendingFreeStarts + 1
    /\ UNCHANGED <<seqVarsButInputs, isSequenceMode, isRunning, freePitchHistory,
                   arrived, lastSampleTime, pureVars, previewVars>>
    /\ UNCHANGED previewBtnDisabled

\* startBtn click while running: stop()
StopClick ==
    /\ frameLeft = 0
    /\ ~isSequenceMode /\ isRunning
    /\ inputs < MaxInputs
    /\ inputs' = inputs + 1
    /\ isRunning' = FALSE
    /\ StopLoop
    /\ UNCHANGED <<frameLeft, pendingStarts, flagVars, currentSequence, noteVars,
                   timeVars, selVars, sequenceStatus, resultsShown, histVars,
                   isSequenceMode, pendingFreeStarts, freePitchHistory, arrived,
                   lastSampleTime, pureVars, previewVars>>
    /\ UNCHANGED previewBtnDisabled

\* getUserMedia resolves: the rest of start()
StartAcquireSuccess ==
    /\ frameLeft = 0
    /\ pendingFreeStarts > 0
    /\ pendingFreeStarts' = pendingFreeStarts - 1
    /\ micStream' = -NewFreeStream
    /\ liveStreams' = liveStreams \cup {-NewFreeStream}
    /\ freePitchHistory' = <<>> /\ arrived' = <<>>
    /\ recentPitches' = <<>>
    /\ lastSampleTime' = -SampleInterval
    /\ isRunning' = TRUE
    /\ animationId' = NewId(rafQueue, animationId)
    /\ rafQueue' = Append(rafQueue, AnalyzeFreeCallback(NewId(rafQueue, animationId)))
    /\ UNCHANGED <<frameLeft, startVars, flagVars, currentSequence,
                   currentNoteIndex, noteScores, pitchSamplesForNote,
                   pitchHistory, timeOnPitch, timeVars, selVars, sequenceStatus,
                   resultsShown, histVars, isSequenceMode, pureVars, previewVars>>
    /\ UNCHANGED previewBtnDisabled

\* getUserMedia rejects: the catch of start() writes the status of free
\* practice only
StartAcquireFail ==
    /\ frameLeft = 0
    /\ pendingFreeStarts > 0
    /\ pendingFreeStarts' = pendingFreeStarts - 1
    /\ UNCHANGED <<seqVars, isSequenceMode, isRunning, freePitchHistory, arrived,
                   lastSampleTime, pureVars, previewVars>>
    /\ UNCHANGED previewBtnDisabled

\* analyze, run dt units after the last frame; raw is what detectPitch
\* returns if the tick samples, and cap bounds the sampling ticks of a session
analyze(dt, raw, cap) ==
    LET cb == Head(rafQueue)
        rest == Tail(ShiftQueue(rafQueue, dt))
        lastSample == Shift(lastSampleTime, dt, SampleInterval)
        doSample == 0 - lastSample >= SampleInterval
        cents == getCentsDifference(getSmoothedPitch(recentPitches, raw), FreeTarget)
        entry == IF InBand(raw) THEN <<cents>> ELSE <<>>
        id == NewId(rest, animationId)
    IN
    /\ FrameStep(dt)
    /\ cb.kind = "analyze"
    /\ frameLeft' = LeftAfter
    \* noteStartTime is read by analyzeSequence only, and only while playing
    /\ noteStartTime' = IF isPlaying THEN Shift(noteStartTime, dt, Horizon)
                        ELSE noteStartTime
    /\ lastSequenceSampleTime' =
           Shift(lastSequenceSampleTime, dt, SequenceSampleInterval)
    /\ IF ~isRunning
       THEN /\ rafQueue' = rest
            /\ lastSampleTime' = lastSample
            /\ UNCHANGED <<animationId, recentPitches, freePitchHistory, arrived>>
       ELSE /\ doSample => Len(arrived) < cap
            /\ lastSampleTime' = IF doSample THEN 0 ELSE lastSample
            /\ recentPitches' = IF doSample /\ InBand(raw)
                                THEN SmoothedWindow(recentPitches, raw)
                                ELSE recentPitches
            /\ freePitchHistory' =
                   IF doSample THEN SlideWindow(Append(freePitchHistory, entry))
                   ELSE freePitchHistory
            /\ arrived' = IF doSample
                          THEN Append(arrived, [raw |-> raw, entry |-> entry])
                          ELSE arrived
            /\ animationId' = id
            /\ rafQueue' = Append(rest, AnalyzeFreeCallback(id))
    /\ UNCHANGED <<micVars, startVars, flagVars, currentSequence,
                   currentNoteIndex, noteScores, pitchSamplesForNote,
                   pitchHistory, timeOnPitch, selVars, sequenceStatus,
                   resultsShown, histVars, isSequenceMode, isRunning,
                   pendingFreeStarts, pureVars, previewVars>>
    /\ UNCHANGED previewBtnDisabled

\* the tick of free practice run dt units after the last frame calls detectPitch
FreeSamplingDue(dt) ==
    isRunning /\ 0 - Shift(lastSampleTime, dt, SampleInterval) >= SampleInterval

FreeEstimates(dt, raws) == IF FreeSamplingDue(dt) THEN raws ELSE {NoPitch}

RunAnalyze ==
    \E dt \in FrameSpacings \cup {0} :
        \E raw \in FreeEstimates(dt, FreeRawPitches) :
            analyze(dt, raw, MaxSamplesPerNote)

\* ------------------------------------------------------------- preview
\* previewBtn click: previewSequence up to the first playTone
PreviewClick ==
    /\ frameLeft = 0
    /\ isSequenceMode
    /\ ~previewBtnDisabled
    /\ inputs < MaxInputs
    /\ inputs' = inputs + 1
    /\ IF isPreviewing \/ isPlaying
       THEN UNCHANGED previewAll
       ELSE \* playNext ends the preview at once when there is no note
            /\ isPreviewing' = (currentSequence # <<>>)
            /\ previewLeft' = Len(currentSequence)
            /\ previewBtnDisabled' = (currentSequence # <<>>)
            /\ goBtnDisabled' = (currentSequence # <<>>)
    /\ UNCHANGED <<seqVarsButInputs, freeVars, pureVars>>

\* the timer of a tone of the preview: index++ and playNext
PreviewToneEnds ==
    /\ frameLeft = 0
    /\ previewLeft > 0
    /\ previewLeft' = previewLeft - 1
    /\ IF previewLeft = 1
       THEN /\ isPreviewing' = FALSE
            /\ previewBtnDisabled' = FALSE
            /\ goBtnDisabled' = FALSE
       ELSE UNCHANGED <<isPreviewing, previewBtnDisabled, goBtnDisabled>>
    /\ UNCHANGED <<seqVars, freeVars, pureVars>>

Next ==
    \/ GoClickStart
    \/ GoClickStop
    \/ RetryClick
    \/ AcquireSuccess
    \/ AcquireFail
    \/ TempoChange
    \/ SequenceSelectChange
    \/ StartNoteChange
    \/ StartOctaveChange
    \/ ImportCustom
    \/ ImportFail
    \/ LoadedStatusTimeout
    \/ InitialLoad
    \/ RunUpdateVisuals
    \/ RunAnalyzeSequence

Spec == Init /\ [][Next]_vars

\* ------------------------------------------------ a singer who stays silent
\* detectPitch never returns an estimate inside the band
SilentPitches == {raw \in RawPitches : ~InBand(raw)}

RunAnalyzeSequenceSilent ==
    \E dt \in FrameSpacings \cup {0}, lag \in PerfLags :
        \E raw \in Estimates(dt, SilentPitches) :
            analyzeSequence(dt, lag, raw, MaxSamplesPerNote)

NextSilent ==
    \/ GoClickStart
    \/ GoClickStop
    \/ RetryClick
    \/ AcquireSuccess
    \/ AcquireFail
    \/ TempoChange
    \/ SequenceSelectChange
    \/ StartNoteChange
    \/ StartOctaveChange
    \/ ImportCustom
    \/ ImportFail
    \/ LoadedStatusTimeout
    \/ InitialLoad
    \/ RunUpdateVisuals
    \/ RunAnalyzeSequenceSilent

SilentSpec == Init /\ [][NextSilent]_vars

\* ------------------------------------------------------------ properties
IsPrefix(s, t) == Len(s) <= Len(t) /\ \A i \in 1..Len(s) : s[i] = t[i]

\* C1: while a run is playing, currentNoteIndex changes only by +1 (the
\* advance of advanceNote)
IndexOnlyAdvances ==
    [][(isPlaying /\ currentNoteIndex' # currentNoteIndex)
          => currentNoteIndex' = currentNoteIndex + 1]_vars

\* C2: while a run is playing, noteScores is append-only
NoteScoresAppendOnly ==
    [][(isPlaying /\ isPlaying') => IsPrefix(noteScores, noteScores')]_vars

\* C3: every recorded NoteScore has a score in 0..100
ScoresInRange ==
    \A i \in 1..Len(noteScores) : noteScores[i].score \in 0..100

\* C4: a user stop records no NoteScore, releases the microphone stream held
\* and leaves both flags false
UserStopRecordsNothing ==
    [][GoClickStop =>
          /\ noteScores' = noteScores
          /\ micStream' = 0
          /\ micStream \notin liveStreams'
          /\ ~isPlaying' /\ ~isCountingDown']_vars

\* C4 witness: stopped in the middle of the second note, with samples of
\* that note collected and only the first note scored
StoppedMidNote ==
    /\ ~isPlaying /\ ~isCountingDown /\ ~resultsShown
    /\ run = 1 /\ endedUpTo = 1
    /\ micStream = 0 /\ liveStreams = {}
    /\ currentNoteIndex = 1 /\ Len(noteScores) = 1
    /\ pitchSamplesForNote # <<>>

\* C5: a failed acquisition changes nothing of the run state and reports
\* the error status
FailedAcquisitionChangesNothing ==
    [][AcquireFail =>
          /\ UNCHANGED <<isPlaying, isCountingDown, currentNoteIndex,
                         noteScores, pitchSamplesForNote, pitchHistory,
                         timeOnPitch, recentPitches, micStream, liveStreams,
                         rafQueue, animationId>>
          /\ sequenceStatus' = ErrorMic]_vars

\* C5 witness: idle after a failed acquisition that followed a finished
\* run, whose scores are still there
FailedAfterFinishedRun ==
    /\ sequenceStatus = ErrorMic /\ currentSequence # <<>>
    /\ ~isPlaying /\ ~isCountingDown /\ pendingStarts = 0
    /\ run = 1 /\ endedUpTo = 1 /\ micStream = 0
    /\ Len(noteScores) = Len(currentSequence)

\* C6: during Playing the per-note samples and timeOnPitch are emptied only
\* by an advance
AccumulatorsResetOnlyAtAdvance ==
    [][(/\ isPlaying /\ isPlaying'
        /\ pitchSamplesForNote # <<>>
        /\ pitchSamplesForNote' = <<>>)
          => currentNoteIndex' = currentNoteIndex + 1]_vars

\* C7: isPlaying and isCountingDown are never both true
FlagsExclusive == ~(isPlaying /\ isCountingDown)

\* C8: while an acquisition is pending, no countdown tick and no analysis
\* tick of a run executes
NoTickWhilePending ==
    [][pendingStarts > 0 =>
          /\ ~(isCountingDown /\ RunUpdateVisuals)
          /\ ~(isPlaying /\ RunAnalyzeSequence)]_vars

\* C9: a tick of a run that was stopped or finished returns without effect
\* and does not reschedule itself
StaleTickHasNoEffect ==
    [][(/\ rafQueue # <<>>
        /\ Head(rafQueue).run <= endedUpTo
        /\ RunUpdateVisuals \/ RunAnalyzeSequence)
          => /\ Len(rafQueue') < Len(rafQueue)
             /\ UNCHANGED <<isPlaying, isCountingDown, sequenceStatus,
                            animationId, noteVars>>]_vars

\* C10: a start on an empty sequence leaves the scheduler idle with no
\* microphone stream held
EmptySequenceNotStarted ==
    [][(AcquireSuccess /\ currentSequence = <<>>)
          => (~isCountingDown' /\ ~isPlaying' /\ micStream' = 0)]_vars

\* ------------------------------- a singer on pitch at a steady frame rate
\* C3, D3, E3 as quarter notes at 60 beats per minute: 1000 ms each
OnPitchRunNotes ==
    << [note |-> "C", octave |-> 3, duration |-> 60, noteType |-> "quarter"],
       [note |-> "D", octave |-> 3, duration |-> 60, noteType |-> "quarter"],
       [note |-> "E", octave |-> 3, duration |-> 60, noteType |-> "quarter"] >>

ImportOnPitchRun == loadCustomSequence(OnPitchRunNotes)

\* detectPitch returns the frequency of the note under way
TargetPitches ==
    IF currentNoteIndex < Len(currentSequence)
    THEN {currentSequence[currentNoteIndex + 1].frequency} ELSE {NoPitch}

\* frames of the analysis loop arrive one unit (1/60 s) apart
RunAnalyzeSequenceOnPitch ==
    \E dt \in {0, 1}, lag \in PerfLags :
        \E raw \in Estimates(dt, TargetPitches) :
            analyzeSequence(dt, lag, raw, MaxSteadySamples)

NextOnPitch ==
    \/ InitialLoad
    \/ SequenceSelectChange
    \/ ImportOnPitchRun
    \/ GoClickStart
    \/ AcquireSuccess
    \/ RunUpdateVisuals
    \/ RunAnalyzeSequenceOnPitch

OnPitchSpec == Init /\ [][NextOnPitch]_vars

\* ------------------------------------------- a browser with slow frames
\* frames of the analysis loop arrive half a second apart, or later
CoarseSpacings == {30, LeadInMs}

RunAnalyzeSequenceCoarse ==
    \E dt \in CoarseSpacings \cup {0}, lag \in PerfLags :
        \E raw \in Estimates(dt, RawPitches) :
            analyzeSequence(dt, lag, raw, MaxSteadySamples)

NextCoarse ==
    \/ InitialLoad
    \/ TempoChange
    \/ GoClickStart
    \/ GoClickStop
    \/ AcquireSuccess
    \/ RunUpdateVisuals
    \/ RunAnalyzeSequenceCoarse

CoarseSpec == Init /\ [][NextCoarse]_vars

\* ----------------------------------- free practice and the challenge
\* the estimates of the challenge, and one above the 1000 Hz gate
WideRawPitches == RawPitches \cup {9000}

RunAnalyzeSequenceWide ==
    \E dt \in FrameSpacings \cup {0}, lag \in PerfLags :
        \E raw \in Estimates(dt, WideRawPitches) :
            analyzeSequence(dt, lag, raw, MaxSamplesPerNote)

NextMode ==
    \/ InitialLoad
    \/ GoClickStart
    \/ GoClickStop
    \/ AcquireSuccess
    \/ RunUpdateVisuals
    \/ RunAnalyzeSequenceWide
    \/ SetModeFree
    \/ SetModeSequence
    \/ StartClick
    \/ StopClick
    \/ StartAcquireSuccess
    \/ StartAcquireFail
    \/ RunAnalyze

ModeSpec == Init /\ [][NextMode]_vars

\* ------------------------------------------- a long free practice session
\* frames of free practice arrive one or two units apart
FreeSpacings == {1, 2}
\* the singer is silent, or 100 cents above A4
SignalPitches == {NoPitch, 7000}

\* how often the estimate changed between the sampling ticks so far
SignalChanges ==
    Cardinality({i \in 1..(Len(arrived) - 1) : arrived[i].raw # arrived[i + 1].raw})

\* what detectPitch can return to the tick of a singer who changes the
\* signal MaxSignalChanges times at most
SteadyEstimates(dt) ==
    IF ~FreeSamplingDue(dt) THEN {NoPitch}
    ELSE {raw \in SignalPitches :
             \/ arrived = <<>>
             \/ raw = arrived[Len(arrived)].raw
             \/ SignalChanges < MaxSignalChanges}

\* the microphone answers before the next frame
RunAnalyzeLong ==
    /\ pendingFreeStarts = 0
    /\ \E dt \in FreeSpacings \cup {0} :
           \E raw \in SteadyEstimates(dt) :
               analyze(dt, raw, MaxFreeSamples)

NextFree ==
    \/ SetModeFree
    \/ StartClick
    \/ StopClick
    \/ StartAcquireSuccess
    \/ StartAcquireFail
    \/ RunAnalyzeLong

FreeSpec == Init /\ [][NextFree]_vars

\* --------------------------------------------- preview and the challenge
NextPreview ==
    \/ InitialLoad
    \/ GoClickStart
    \/ GoClickStop
    \/ RetryClick
    \/ AcquireSuccess
    \/ PreviewClick
    \/ PreviewToneEnds
    \/ RunUpdateVisuals
    \/ RunAnalyzeSequence

PreviewSpec == Init /\ [][NextPreview]_vars

\* ------------------------------------- the pitch functions on their own

TransposeArgs ==
    [fn : {"transpose"}, note : {noteNames[i] : i \in 1..Len(noteNames)},
     octave : 0..MaxOctave, k : (-MaxShift)..MaxShift]

SelectorArgs ==
    [fn : {"flatToSharpEquivalent"}, note : Steps,
     accidental : {"natural", "sharp", "flat"}, octave : 0..MaxOctave]

PitchArgs ==
    [fn : {"parseMusicXMLPart"}, step : Steps, alter : {-1, 0, 1},
     octave : 0..MaxOctave]

PitchInit ==
    /\ PageLoad
    /\ arg \in TransposeArgs \cup SelectorArgs \cup PitchArgs
    /\ res = NoArg

\* loadSequence's transposition of one note by k semitones, and back
ApplyTranspose ==
    /\ arg.fn = "transpose" /\ res = NoArg
    /\ LET there == semitoneToNote(noteToSemitone(arg.note, arg.octave) + arg.k)
           back == semitoneToNote(noteToSemitone(there.note, there.octave) - arg.k)
       IN res' = [fn |-> "transpose", there |-> there, back |-> back]
    /\ UNCHANGED <<seqVars, freeVars, previewAll, arg>>

\* confirmNoteSelection: applyAccidental, then flatToSharpEquivalent
ApplyFlatToSharpEquivalent ==
    /\ arg.fn = "flatToSharpEquivalent" /\ res = NoArg
    /\ LET r == flatToSharpEquivalent(applyAccidental(arg.note, arg.accidental),
                                      arg.octave)
       IN res' = [fn |-> "flatToSharpEquivalent", note |-> r.note,
                  octave |-> r.octave]
    /\ UNCHANGED <<seqVars, freeVars, previewAll, arg>>

ApplyParsedPitch ==
    /\ arg.fn = "parseMusicXMLPart" /\ res = NoArg
    /\ LET r == ParsedPitch(arg.step, arg.alter, arg.octave)
       IN res' = [fn |-> "parseMusicXMLPart", note |-> r.note, octave |-> r.octave]
    /\ UNCHANGED <<seqVars, freeVars, previewAll, arg>>

PitchNext == ApplyTranspose \/ ApplyFlatToSharpEquivalent \/ ApplyParsedPitch

PitchSpec == PitchInit /\ [][PitchNext]_vars

\* --------------------------------------- the scoring functions on their own
\* mean deviations at and around the limits of the accuracy steps
DeviationLimits == {0, 25, 50, 75, 100, 150, 300, 450, 600}

\* sums of |cents| over n samples whose mean is at a limit or next to it
DeviationSums(n) ==
    {sum \in 0..(600 * n + 1) :
        \E a \in DeviationLimits : sum \in {a * n - 1, a * n, a * n + 1}}

\* two notes to compare: the sum and the number of the samples of each
AccuracyArgs ==
    UNION {[fn : {"accuracyScore"}, n : {n}, sum : DeviationSums(n),
            otherN : {m}, otherSum : DeviationSums(m)] :
           n \in 1..MaxMeanSamples, m \in 1..MaxMeanSamples}

\* note scores at and next to the limits of the grades, and in between
ScoreChoices == {0, 14, 15, 39, 40, 55, 57, 58, 69, 70, 84, 85, 100}

\* the noteScores of a finished run, by their score
FinishArgs ==
    UNION {[fn : {"finishSequence"},
            noteScores : [1..n -> [score : ScoreChoices]]] :
           n \in 1..MaxScoredNotes}

ScoreInit ==
    /\ PageLoad
    /\ arg \in AccuracyArgs \cup FinishArgs
    /\ res = NoArg

\* finishSequence: the percentage and the grade of the results panel
ApplyFinishSequence ==
    /\ arg.fn = "finishSequence" /\ res = NoArg
    /\ res' = [fn |-> "finishSequence",
               percentage |-> Percentage(arg.noteScores),
               grade |-> Grade(Percentage(arg.noteScores))]
    /\ UNCHANGED <<seqVars, freeVars, previewAll, arg>>

\* calculateNoteScore: the accuracy component of the two notes
ApplyAccuracyScore ==
    /\ arg.fn = "accuracyScore" /\ res = NoArg
    /\ res' = [fn |-> "accuracyScore",
               accuracyScore |-> AccuracyScore(arg.sum, arg.n),
               other |-> AccuracyScore(arg.otherSum, arg.otherN)]
    /\ UNCHANGED <<seqVars, freeVars, previewAll, arg>>

ScoreNext == ApplyAccuracyScore \/ ApplyFinishSequence

ScoreSpec == ScoreInit /\ [][ScoreNext]_vars

\* ------------------------------------------------- detectPitch on its own
\* samples take the values -1, 0 and 1 times a gain, in units of 0.001
WaveValues == {-1, 0, 1}
Gains == {4, 100}
\* the silence threshold 0.005 in those units
SilenceRms == 5

NaN == [nan |-> TRUE]

\* comparisons of Numbers: every comparison with NaN is false
NumLess(a, b) == a # NaN /\ b # NaN /\ a.num * b.den < b.num * a.den
NumGeq(a, b) == a # NaN /\ b # NaN /\ a.num * b.den >= b.num * a.den

\* MAX_SAMPLES of a buffer
HalfSize(buffer) == Len(buffer) \div 2

RECURSIVE SumTo(_, _)
SumTo(f, n) == IF n = 0 THEN 0 ELSE f[n] + SumTo(f, n - 1)

\* rms < 0.005, with rms = sqrt(sum of squares / SIZE)
IsSilent(buffer, gain) ==
    SumTo([i \in 1..Len(buffer) |-> buffer[i] * buffer[i]], Len(buffer))
        * gain * gain < SilenceRms * SilenceRms * Len(buffer)

\* diff[tau]; buffer[i] of the code is buffer[i + 1] here
Difference(buffer, tau) ==
    LET M == HalfSize(buffer)
    IN SumTo([i \in 1..M |-> (buffer[i] - buffer[i + tau])
                               * (buffer[i] - buffer[i + tau])], M)

\* cmndf[tau] = diff[tau] / (runningSum / tau): 0 / 0 is NaN
Cmndf(buffer, tau) ==
    LET runningSum == SumTo([t \in 1..tau |-> Difference(buffer, t)], tau)
    IN IF tau = 0 THEN Rat(1, 1)
       ELSE IF runningSum = 0 THEN NaN
       ELSE Rat(Difference(buffer, tau) * tau, runningSum)

Threshold == Rat(1, 10)

\* while (tau < MAX_SAMPLES - 1 && cmndf[tau] >= threshold) tau++
RECURSIVE SkipAbove(_, _)
SkipAbove(buffer, tau) ==
    IF tau < HalfSize(buffer) - 1 /\ NumGeq(Cmndf(buffer, tau), Threshold)
    THEN SkipAbove(buffer, tau + 1) ELSE tau

\* while (tau < MAX_SAMPLES - 1 && cmndf[tau + 1] < cmndf[tau]) tau++
RECURSIVE Descend(_, _)
Descend(buffer, tau) ==
    IF tau < HalfSize(buffer) - 1
       /\ NumLess(Cmndf(buffer, tau + 1), Cmndf(buffer, tau))
    THEN Descend(buffer, tau + 1) ELSE tau


\* (s2 - s0) / (2 * (2 * s1 - s2 - s0)) over the common denominator of the
\* three values; a zero denominator gives an infinity or NaN
Adjustment(s0, s1, s2) ==
    IF NaN \in {s0, s1, s2} THEN NaN
    ELSE LET a0 == s0.num * s1.den * s2.den
             a1 == s1.num * s0.den * s2.den
             a2 == s2.num * s0.den * s1.den
         IN IF 2 * a1 - a2 - a0 = 0 THEN NaN
            ELSE Rat(a2 - a0, 2 * (2 * a1 - a2 - a0))

\* Math.abs(adjustment) < 1
IsSmall(adjustment) ==
    /\ adjustment # NaN
    /\ JsAbs(adjustment.num) < JsAbs(adjustment.den)

NoFrequency == [kind |-> "none"]

\* detectPitch: -1, or sampleRate / tau given by the lag found by the scan
\* and the adjustment added to it
detectPitch(buffer, gain) ==
    LET tau == Descend(buffer, SkipAbove(buffer, 2))
        adjustment == Adjustment(Cmndf(buffer, tau - 1), Cmndf(buffer, tau),
                                 Cmndf(buffer, tau + 1))
    IN IF IsSilent(buffer, gain) THEN NoFrequency
       ELSE IF tau >= HalfSize(buffer) - 1 \/ NumGeq(Cmndf(buffer, tau), Threshold)
       THEN NoFrequency
       ELSE [kind |-> "frequency", tau |-> tau,
             adjustment |-> IF IsSmall(adjustment) THEN adjustment ELSE Rat(0, 1)]

DetectArgs ==
    [fn : {"detectPitch"}, buffer : [1..FrameSize -> WaveValues], gain : Gains]

DetectInit ==
    /\ PageLoad
    /\ arg \in DetectArgs
    /\ res = NoArg

ApplyDetectPitch ==
    /\ arg.fn = "detectPitch" /\ res = NoArg
    /\ res' = [fn |-> "detectPitch", pitch |-> detectPitch(arg.buffer, arg.gain)]
    /\ UNCHANGED <<seqVars, freeVars, previewAll, arg>>

DetectNext == ApplyDetectPitch

DetectSpec == DetectInit /\ [][DetectNext]_vars

\* ------------------------------------------------ the smoother on its own
\* estimates inside the band, on the cents scale
SmootherPitches == {4800, 4900, 5100}

\* recentPitches as a call finds it, and the estimate it is given
SmootherArgs ==
    UNION {[fn : {"getSmoothedPitch"}, recentPitches : [1..n -> SmootherPitches],
            newPitch : SmootherPitches] : n \in 0..SmoothingWindow}

SmootherInit ==
    /\ PageLoad
    /\ arg \in SmootherArgs
    /\ res = NoArg

ApplyGetSmoothedPitch ==
    /\ arg.fn = "getSmoothedPitch" /\ res = NoArg
    /\ res' = [fn |-> "getSmoothedPitch",
               recentPitches |-> SmoothedWindow(arg.recentPitches, arg.newPitch),
               pitch |-> getSmoothedPitch(arg.recentPitches, arg.newPitch)]
    /\ UNCHANGED <<seqVars, freeVars, previewAll, arg>>

SmootherNext == ApplyGetSmoothedPitch

SmootherSpec == SmootherInit /\ [][SmootherNext]_vars

\* C11: when no in-band sample is collected in a run, every recorded
\* NoteScore has score 0 and the results panel shows percentage 0, grade F
SilentRunScoresZero ==
    /\ \A i \in 1..Len(noteScores) : noteScores[i].score = 0
    /\ (resultsShown /\ noteScores # <<>>) =>
           /\ Percentage(noteScores) = 0
           /\ Grade(Percentage(noteScores)) = "F"

\* C11 witness: a run of three notes finished without a single sample
SilentRunFinished ==
    /\ resultsShown /\ ~isPlaying /\ ~isCountingDown
    /\ Len(noteScores) = 3
    /\ \A i \in 1..3 : noteScores[i].timeOnPitch = 0

\* C12: the run of C3, D3, E3, 1000 ms each at 100% tempo, sung with 0 cents
\* deviation at every sampling tick, ends with three NoteScores of exactly
\* 100, percentage 100 and grade A
OnPitchRunScores100 ==
    (/\ resultsShown
     /\ tempoPercent = 100
     /\ currentSequence = Transposed(OnPitchRunNotes, "C", 3))
       => /\ Len(noteScores) = 3
          /\ \A i \in 1..Len(noteScores) : noteScores[i].score = 100
          /\ Percentage(noteScores) = 100
          /\ Grade(Percentage(noteScores)) = "A"

\* C13: with tempoPercent = p, an analysis tick advances the note of base
\* duration d exactly when the time elapsed since the note's start is at
\* least d * 100 / p, so that p = 200 halves the time every note needs
AdvanceAtAdjustedDuration ==
    [][\A dt \in CoarseSpacings \cup {0}, lag \in PerfLags, raw \in RawPitches :
          (/\ isPlaying /\ currentNoteIndex < Len(currentSequence)
           /\ analyzeSequence(dt, lag, raw, MaxSteadySamples))
            => LET d == currentSequence[currentNoteIndex + 1].duration
                   elapsed == 0 - Shift(noteStartTime, dt, Horizon)
               IN /\ currentNoteIndex' \in {currentNoteIndex, currentNoteIndex + 1}
                  /\ currentNoteIndex' = currentNoteIndex + 1
                        <=> d * 100 <= elapsed * tempoPercent]_vars

\* C13 witness: at 200% the first 1050 ms note was advanced at its second
\* half-second tick, after two on-pitch samples
AdvancedAtHalfTime ==
    /\ tempoPercent = 200 /\ inputs = 2 /\ run = 1
    /\ isPlaying /\ currentNoteIndex = 1 /\ Len(noteScores) = 1
    /\ noteScores[1].totalTime = 63
    /\ noteScores[1].timeOnPitch = 2 * SequenceSampleInterval

\* C14: while a run counts down, the beat interval its countdown ticks use
\* is the one derived from the tempoPercent the advance test reads
BeatFollowsTempo ==
    isCountingDown =>
        \A i \in 1..Len(rafQueue) :
            (rafQueue[i].kind = "updateVisuals" /\ rafQueue[i].run = run) =>
                rafQueue[i].beatIntervalMs
                    = getAdjustedDuration(currentSequence[1].duration, tempoPercent)

\* quarter-note beats in a note of the given type, as num/den
BeatsOfNoteType(noteType) ==
    IF noteType = "eighth" THEN Rat(1, 2)
    ELSE IF noteType = "half" THEN Rat(2, 1)
    ELSE IF noteType = "whole" THEN Rat(4, 1)
    ELSE Rat(1, 1)

\* C15: a countdown tick past the lead-in moves the run to Playing exactly
\* when 3 beat intervals have elapsed since the count began, the beat being
\* the first note's tempo-adjusted duration brought to a quarter note
CountdownLastsThreeBeats ==
    [][\A dt \in FrameSpacings \cup {0}, lag \in PerfLags :
          (/\ isCountingDown /\ currentSequence # <<>>
           /\ rafQueue # <<>> /\ Head(rafQueue).run = run
           \* the first note and the tempo are those the count began with
           /\ Head(rafQueue).beatIntervalMs
                 = getAdjustedDuration(currentSequence[1].duration, tempoPercent)
           /\ lag >= Shift(Head(rafQueue).countdownStartTime, dt, Horizon)
           /\ updateVisuals(dt, lag))
            => LET first == currentSequence[1]
                   beats == BeatsOfNoteType(first.noteType)
                   elapsed == lag - Shift(Head(rafQueue).countdownStartTime,
                                          dt, Horizon)
               IN ~isCountingDown'
                    <=> 3 * first.duration * 100 * beats.den
                           <= elapsed * tempoPercent * beats.num]_vars

\* C16: a failed MusicXML import leaves a non-empty current sequence, the
\* one loaded before, in place, and leaves sequences['custom'].notes alone
\* (stated for imports tried while the results of a finished run are on
\* display, so that a sequence had been loaded and played before)
FailedImportKeepsSequence ==
    [][(ImportFail /\ resultsShown)
          => /\ currentSequence' = currentSequence
             /\ currentSequence' # <<>>
             /\ customNotes' = customNotes]_vars

Canonical(note) == \E i \in 1..Len(noteNames) : noteNames[i] = note

\* C17: transposing a note by k semitones and then by -k gives the note
\* back, and the chromatic index of every semitone number lies in 0..11
TranspositionRoundTrip ==
    res.fn = "transpose" =>
        /\ res.back = [note |-> arg.note, octave |-> arg.octave]
        /\ Canonical(res.there.note)
        /\ ChromaticIndex(noteToSemitone(arg.note, arg.octave) + arg.k) \in 0..11
        /\ noteToSemitone(res.there.note, res.there.octave)
              = noteToSemitone(arg.note, arg.octave) + arg.k

\* C17 witness: a round trip through a negative semitone number
RoundTripBelowZero ==
    /\ res.fn = "transpose"
    /\ noteToSemitone(arg.note, arg.octave) + arg.k < 0
    /\ res.there.octave < 0
    /\ res.back = [note |-> arg.note, octave |-> arg.octave]

\* C18: a flat on any of the seven steps, from the note selector or from a
\* MusicXML pitch, becomes the canonical name one semitone below the
\* natural step
FlatsBecomeSharps ==
    /\ (res.fn = "flatToSharpEquivalent" /\ arg.accidental = "flat") =>
          /\ Canonical(res.note)
          /\ noteToSemitone(res.note, res.octave)
                = noteToSemitone(arg.note, arg.octave) - 1
    /\ (res.fn = "parseMusicXMLPart" /\ arg.alter = -1) =>
          /\ Canonical(res.note)
          /\ noteToSemitone(res.note, res.octave)
                = noteToSemitone(arg.step, arg.octave) - 1

\* the estimate is none, or not strictly inside the band
OutsideBand(raw) == raw = NoPitch \/ raw <= BandLow \/ raw >= BandHigh

\* the callback that ran has put itself back at the end of the queue
Rescheduled(kind) ==
    /\ rafQueue' # <<>>
    /\ rafQueue'[Len(rafQueue')].kind = kind
    /\ rafQueue'[Len(rafQueue')].id = animationId'

\* a sampling tick of the challenge that gets an estimate outside the band
GapInSequence(dt, lag, raw) ==
    (SamplingDue(dt) /\ analyzeSequence(dt, lag, raw, MaxSamplesPerNote)) =>
        /\ recentPitches' \in {recentPitches, <<>>}
        /\ IF currentNoteIndex' = currentNoteIndex
           THEN /\ recentPitches' = recentPitches
                /\ pitchSamplesForNote' = pitchSamplesForNote
                /\ timeOnPitch' = timeOnPitch
                /\ pitchHistory' = Append(pitchHistory, <<>>)
                /\ Rescheduled("analyzeSequence")
           ELSE \* the note ended in this tick: it is scored on what it had
                /\ noteScores'[Len(noteScores')].timeOnPitch = timeOnPitch
                /\ noteScores'[Len(noteScores')].score =
                       calculateNoteScore(pitchSamplesForNote, timeOnPitch,
                           getAdjustedDuration(
                               currentSequence[currentNoteIndex + 1].duration,
                               tempoPercent))
                /\ pitchSamplesForNote' = <<>> /\ timeOnPitch' = 0

\* a sampling tick of free practice that gets an estimate outside the band
GapInFreePractice(dt, raw) ==
    (FreeSamplingDue(dt) /\ analyze(dt, raw, MaxSamplesPerNote)) =>
        /\ recentPitches' = recentPitches
        /\ pitchSamplesForNote' = pitchSamplesForNote
        /\ timeOnPitch' = timeOnPitch
        /\ freePitchHistory' # <<>>
        /\ freePitchHistory'[Len(freePitchHistory')] = <<>>
        /\ Len(freePitchHistory) < maxSamples =>
               freePitchHistory' = Append(freePitchHistory, <<>>)
        /\ Rescheduled("analyze")

\* C19: a raw estimate that is none or outside the 80-1000 Hz band is not fed
\* to the smoother window, is not appended to the samples of the note and
\* does not increase timeOnPitch; the sampling tick records a gap in the
\* history instead, and completes without an exception
OutOfBandIsAGap ==
    [][\A dt \in FrameSpacings \cup {0}, lag \in PerfLags,
          raw \in WideRawPitches \cup FreeRawPitches :
            OutsideBand(raw) =>
                GapInSequence(dt, lag, raw) /\ GapInFreePractice(dt, raw)]_vars

\* the challenge has recorded a gap while free practice has recorded one for
\* an estimate above the band
GapsRecorded ==
    /\ isPlaying /\ pitchHistory # <<>> /\ pitchHistory[Len(pitchHistory)] = <<>>
    /\ \E i \in 1..Len(arrived) :
           /\ arrived[i].raw = 9000
           /\ freePitchHistory[i] = <<>>

\* the entries pushed since the history was cleared, in arrival order
ArrivedEntries == [i \in 1..Len(arrived) |-> arrived[i].entry]

\* the history is the last maxSamples entries that arrived
HoldsMostRecent ==
    /\ Len(freePitchHistory) <= maxSamples
    /\ freePitchHistory = KeepLast(ArrivedEntries, maxSamples)

\* a sampling tick appends one entry, a deviation or a gap, and evicts the
\* oldest one from a full history; any other tick leaves the history alone
AppendsOneEntry(dt, raw) ==
    analyze(dt, raw, MaxFreeSamples) =>
        IF FreeSamplingDue(dt)
        THEN LET newest == freePitchHistory'[Len(freePitchHistory')]
             IN /\ freePitchHistory' # <<>>
                /\ Len(newest) <= 1
                /\ freePitchHistory' =
                       IF Len(freePitchHistory) < maxSamples
                       THEN Append(freePitchHistory, newest)
                       ELSE Append(Tail(freePitchHistory), newest)
        ELSE freePitchHistory' = freePitchHistory

\* C20: in free practice each sampling tick appends exactly one entry, a
\* deviation or a gap marker, to the rolling history; after every tick the
\* history holds at most 90 entries, the most recent ones in arrival order
RollingHistoryKeepsNewest ==
    /\ []HoldsMostRecent
    /\ [][\A dt \in FreeSpacings \cup {0}, raw \in SignalPitches :
              AppendsOneEntry(dt, raw)]_vars

\* more than 90 entries have arrived, and what is kept starts with a gap and
\* ends with a deviation, or the reverse
OldestEvicted ==
    /\ Len(arrived) > maxSamples
    /\ Len(freePitchHistory) = maxSamples
    /\ freePitchHistory[1] # freePitchHistory[maxSamples]

RatEq(a, b) == a.num * b.den = b.num * a.den

\* the accuracy the steps give to a mean absolute deviation a
StepAccuracy(a) ==
    IF RatLeq(a, Rat(25, 1)) THEN Rat(60, 1)
    ELSE IF RatLeq(a, Rat(50, 1)) THEN Rat(55, 1)
    ELSE IF RatLeq(a, Rat(75, 1)) THEN Rat(50, 1)
    ELSE IF RatLeq(a, Rat(100, 1)) THEN Rat(40, 1)
    ELSE IF RatLeq(a, Rat(150, 1)) THEN Rat(30, 1)
    ELSE LET slope == Rat(25 * 20 * a.den - (a.num - 150 * a.den), 20 * a.den)
         IN IF RatLeq(slope, Rat(10, 1)) THEN Rat(10, 1) ELSE slope

\* C21: the accuracy component is 60 for a mean absolute deviation a <= 25,
\* 55 for a <= 50, 50 for a <= 75, 40 for a <= 100, 30 for a <= 150 and
\* max(10, 25 - (a - 150)/20) above 150, and never increases with a
AccuracyFollowsSteps ==
    res.fn = "accuracyScore" =>
        /\ RatEq(res.accuracyScore, StepAccuracy(Rat(arg.sum, arg.n)))
        /\ RatLeq(Rat(arg.sum, arg.n), Rat(arg.otherSum, arg.otherN)) =>
               RatLeq(res.other, res.accuracyScore)

\* a mean of exactly 150 scored next to a larger mean on the slope
AccuracyAtLastStep ==
    /\ res.fn = "accuracyScore"
    /\ arg.sum = 150 * arg.n /\ RatEq(res.accuracyScore, Rat(30, 1))
    /\ arg.otherSum = 300 * arg.otherN + 1
    /\ ~RatLeq(res.other, Rat(10, 1)) /\ ~RatLeq(Rat(25, 1), res.other)

\* the grade of a percentage by its limits
GradeOf(percentage) ==
    CASE percentage >= 85 -> "A"
      [] percentage >= 70 /\ percentage < 85 -> "B"
      [] percentage >= 55 /\ percentage < 70 -> "C"
      [] percentage >= 40 /\ percentage < 55 -> "D"
      [] OTHER -> "F"

\* C22: at finish the percentage is round(100 * sum of the note scores /
\* (100 * number of notes)), and the grade is A from 85, B from 70, C from
\* 55, D from 40 and F below, for every list of note scores in 0..100
PercentageIsRoundedMean ==
    res.fn = "finishSequence" =>
        /\ res.percentage = PercentageExact(arg.noteScores)
        /\ res.grade = GradeOf(PercentageExact(arg.noteScores))

\* the k-th smallest value of w, by counting
KthSmallest(w, k) ==
    CHOOSE x \in {w[i] : i \in 1..Len(w)} :
        /\ Cardinality({i \in 1..Len(w) : w[i] < x}) < k
        /\ Cardinality({i \in 1..Len(w) : w[i] <= x}) >= k

\* the median of a window of 3, 4 or 5 estimates
MedianOf(w) ==
    IF Len(w) % 2 = 1 THEN KthSmallest(w, (Len(w) + 1) \div 2)
    ELSE HzMean(KthSmallest(w, Len(w) \div 2), KthSmallest(w, Len(w) \div 2 + 1))

\* C23: the smoother window never holds more than 5 estimates and holds the
\* most recent ones in arrival order; getSmoothedPitch returns the new value
\* while the window holds fewer than 3 estimates after the insertion, and the
\* median of the window otherwise: the middle element of 3 or 5, the mean of
\* the two middle elements of 4
SmootherReturnsMedian ==
    res.fn = "getSmoothedPitch" =>
        LET arrivals == Append(arg.recentPitches, arg.newPitch)
        IN /\ Len(res.recentPitches) <= 5
           /\ res.recentPitches = KeepLast(arrivals, 5)
           /\ res.pitch = IF Len(res.recentPitches) < 3 THEN arg.newPitch
                          ELSE MedianOf(res.recentPitches)

\* a full window has lost its oldest estimate and returned a median that is
\* not the new estimate
SmootherEvictedOldest ==
    /\ res.fn = "getSmoothedPitch"
    /\ Len(arg.recentPitches) = 5
    /\ arg.recentPitches[1] # arg.recentPitches[2]
    /\ res.pitch # arg.newPitch

\* lag is a dip of the normalized difference of the buffer: below the
\* threshold and not above its successor
IsDip(buffer, lag) ==
    /\ NumLess(Cmndf(buffer, lag), Threshold)
    /\ NumGeq(Cmndf(buffer, lag + 1), Cmndf(buffer, lag))

\* C24: detectPitch returns none for a frame whose RMS is below the silence
\* threshold, and whenever the scan from lag 2 reaches lag M-1 without
\* settling on a lag below the threshold; a frequency it returns comes from
\* a lag with 2 <= lag < M-1, d'(lag) < threshold and d'(lag+1) >= d'(lag)
\* that is the first such dip
DetectPitchFindsFirstDip ==
    res.fn = "detectPitch" =>
        LET M == HalfSize(arg.buffer)
            dips == {lag \in 2..(M - 2) : IsDip(arg.buffer, lag)}
        IN /\ IsSilent(arg.buffer, arg.gain) => res.pitch = NoFrequency
           /\ dips = {} => res.pitch = NoFrequency
           /\ res.pitch # NoFrequency =>
                  /\ res.pitch.tau \in dips
                  /\ \A lag \in dips : res.pitch.tau <= lag

\* C25: every entry into the countdown starts from a clean run state:
\* currentNoteIndex = 0, no note scores, no samples of the note, timeOnPitch
\* = 0 and an empty smoother window, whatever the previous run left behind
CountdownStartsClean ==
    [][(isCountingDown' /\ (~isCountingDown \/ run' # run)) =>
          /\ currentNoteIndex' = 0
          /\ noteScores' = <<>>
          /\ pitchSamplesForNote' = <<>>
          /\ timeOnPitch' = 0
          /\ recentPitches' = <<>>]_vars

\* a countdown entered by the second run, after the first has ended
CountdownAfterEarlierRun ==
    /\ isCountingDown /\ ~isPlaying
    /\ run >= 2 /\ endedUpTo = run - 1
    /\ currentNoteIndex = 0 /\ noteScores = <<>>

\* C26: while the scheduler is playing, currentNoteIndex is below the length
\* of the current sequence, so each analysis tick finds a current note,
\* whatever the user selects while the run is in progress
PlayingHasCurrentNote ==
    isPlaying => currentNoteIndex < Len(currentSequence)

\* the queued callbacks of a kind: each is one loop, alive while the flag it
\* tests on its next run is set
Loops(kind) == {i \in 1..Len(rafQueue) : rafQueue[i].kind = kind}

\* C27: at most one countdown loop and at most one analysis loop of the
\* challenge is alive at any time, for every interleaving of Go and Retry
\* clicks, stop requests, countdown ticks and acquisition completions
OneLoopOfEachKind ==
    /\ isCountingDown => Cardinality(Loops("updateVisuals")) <= 1
    /\ isPlaying => Cardinality(Loops("analyzeSequence")) <= 1

\* nothing runs and nothing is pending
AllIdle ==
    /\ ~isRunning /\ ~isCountingDown /\ ~isPlaying
    /\ pendingStarts = 0 /\ pendingFreeStarts = 0

\* C28: no microphone stream is leaked: micStream is never overwritten while
\* it refers to a live stream, and whenever free practice is not running, no
\* challenge is counting down or playing and no acquisition is pending, no
\* live stream exists
NoStreamLeaked ==
    /\ [](AllIdle => liveStreams = {})
    /\ [][micStream' # micStream => micStream \notin liveStreams']_vars

\* C29: preview playback and a challenge are never active at the same time:
\* isPreviewing is never true together with isCountingDown or isPlaying
PreviewExcludesChallenge ==
    ~(isPreviewing /\ (isCountingDown \/ isPlaying))

\* C30: switching to free practice cancels the challenge in progress: in
\* free-practice mode, where no start can be requested, the scheduler is
\* neither counting down nor playing; and the switch to sequence mode leaves
\* the analysis of free practice not running
ModeSwitchCancels ==
    /\ [](~isSequenceMode => ~isCountingDown /\ ~isPlaying)
    /\ [][(~isSequenceMode /\ isSequenceMode') => ~isRunning']_vars
====
